---- MODULE Spec2Model ----
(***************************************************************************)
(* Field-usage extraction and CIM compliance checking of                   *)
(* src/cim_validation.py.  Strings are sequences of one-character strings, *)
(* and every regular expression of the source is modelled by the search    *)
(* Python's backtracking matcher performs for it.                          *)
(***************************************************************************)
EXTENDS Integers, Sequences, FiniteSets, TLC

(***************************************************************************)
(* Characters and character classes of Python's re module (ASCII).         *)
(***************************************************************************)
UpperLetters ==
  <<"A","B","C","D","E","F","G","H","I","J","K","L","M",
    "N","O","P","Q","R","S","T","U","V","W","X","Y","Z">>

LowerLetters ==
  <<"a","b","c","d","e","f","g","h","i","j","k","l","m",
    "n","o","p","q","r","s","t","u","v","w","x","y","z">>

Digits == {"0","1","2","3","4","5","6","7","8","9"}

\* \w
WordChars ==
  {UpperLetters[i] : i \in 1..26} \cup {LowerLetters[i] : i \in 1..26}
    \cup Digits \cup {"_"}

\* \s, and the characters str.strip() removes
Whitespace == {" ", "\t", "\n", "\r"}

\* str.lower() on one character; also how re.IGNORECASE compares
ToLower(c) ==
  IF \E i \in 1..26 : UpperLetters[i] = c
    THEN LowerLetters[CHOOSE i \in 1..26 : UpperLetters[i] = c]
    ELSE c

LowerStr(s) == [i \in 1..Len(s) |-> ToLower(s[i])]

Min(S) == CHOOSE x \in S : \A y \in S : x <= y
Max(S) == CHOOSE x \in S : \A y \in S : x >= y

\* number of consecutive characters of class C found in s from position i
RunOf(s, i, C) ==
  LET stops == {k \in i..Len(s) : s[k] \notin C}
  IN  IF stops = {} THEN Len(s) + 1 - i ELSE Min(stops) - i

WsRun(s, i)    == RunOf(s, i, Whitespace)
WordRun(s, i)  == RunOf(s, i, WordChars)

\* number of consecutive non-whitespace characters from position i
NonWsRun(s, i) ==
  LET stops == {k \in i..Len(s) : s[k] \in Whitespace}
  IN  IF stops = {} THEN Len(s) + 1 - i ELSE Min(stops) - i

IsSpaceAt(s, i) == i >= 1 /\ i <= Len(s) /\ s[i] \in Whitespace

\* the literal lit (lower case) occurs in s at position i, ignoring case
LitAt(s, i, lit) ==
  /\ i >= 1
  /\ i + Len(lit) - 1 <= Len(s)
  /\ \A k \in 1..Len(lit) : ToLower(s[i + k - 1]) = lit[k]

\* '.' matches every character but the newline
NoNewline(s, a, b) == \A k \in a..b : s[k] # "\n"

\* s[a..b-1]
Slice(s, a, b) == SubSeq(s, a, b - 1)

\* str.strip()
Strip(s) ==
  LET keep == {k \in 1..Len(s) : s[k] \notin Whitespace}
  IN  IF keep = {} THEN <<>> ELSE SubSeq(s, Min(keep), Max(keep))

\* str.split(c) for a one-character separator
RECURSIVE Split(_, _)
Split(s, c) ==
  LET at == {k \in 1..Len(s) : s[k] = c}
  IN  IF at = {} THEN <<s>>
      ELSE <<SubSeq(s, 1, Min(at) - 1)>>
             \o Split(SubSeq(s, Min(at) + 1, Len(s)), c)

\* [f(x) for x in seq]
StripAll(parts) == [i \in 1..Len(parts) |-> Strip(parts[i])]

\* the elements of a sequence
Range(seq) == {seq[i] : i \in 1..Len(seq)}

(***************************************************************************)
(* COMMAND_PATTERNS.  Each XAt(s, i) is the match of pattern X that starts *)
(* at position i of s: ok, the groups in order, and the position after the *)
(* match.  Greedy \s+ tries the longest run first, lazy (.*?) the shortest *)
(* text first, and a later choice is exhausted before an earlier one is    *)
(* changed.  Positions found by the search are handed on as parameters.    *)
(***************************************************************************)
NoMatch == [ok |-> FALSE, groups |-> <<>>, end |-> 0]

\* the position after \s+ at q
AfterWs(s, q) == q + WsRun(s, q)

\* \s+KEYWORD\s+ can start at q (KEYWORD in any case)
KeywordAt(s, q, kw) ==
  /\ WsRun(s, q) >= 1
  /\ LitAt(s, AfterWs(s, q), kw)
  /\ IsSpaceAt(s, AfterWs(s, q) + Len(kw))

\* the position after \s+KEYWORD\s+ at q
AfterKeyword(s, q, kw) == AfterWs(s, AfterWs(s, q) + Len(kw))

\* the ends q of a lazy (.*?) that starts at p and is followed by \s+KEYWORD\s+
LazyEnds(s, p, kw) ==
  {q \in p..(Len(s) + 1) : NoNewline(s, p, q - 1) /\ KeywordAt(s, q, kw)}

\* the lengths k of a greedy \s+ at p0 that let the lazy group after it end
GreedyWs(s, p0, kw) ==
  {k \in 1..WsRun(s, p0) : LazyEnds(s, p0 + k, kw) # {}}

\* ($|\s|$) at q2: '$' holds at the end and before a final newline
RenameAtEnd(s, q2) == q2 > Len(s) \/ (q2 = Len(s) /\ s[q2] = "\n")

\* RenameGroups for a pattern whose last group does not capture, (?:$|\s):
\* a match then has two groups and line 85 cannot unpack it; C10 does not
\* hold of it
RenameTwoGroups(s, p1, q1, p3, q2) ==
  [ok |-> TRUE,
   groups |-> <<Slice(s, p1, q1), Slice(s, p3, q2)>>,
   end |-> IF RenameAtEnd(s, q2) THEN q2 ELSE q2 + 1]

RenameGroups(s, p1, q1, p3, q2) ==
  [ok |-> TRUE,
   groups |-> <<Slice(s, p1, q1), Slice(s, p3, q2),
                IF RenameAtEnd(s, q2) THEN <<>> ELSE <<s[q2]>> >>,
   end |-> IF RenameAtEnd(s, q2) THEN q2 ELSE q2 + 1]

\* the second (.*?) runs from p3 to the first whitespace or the end
RenameNew(s, p1, q1, p3) == RenameGroups(s, p1, q1, p3, p3 + NonWsRun(s, p3))

RenameOld(s, p1, q1) == RenameNew(s, p1, q1, AfterKeyword(s, q1, <<"a","s">>))

RenameFrom(s, p1) == RenameOld(s, p1, Min(LazyEnds(s, p1, <<"a","s">>)))

RenameWs(s, p0, ks) ==
  IF ks = {} THEN NoMatch ELSE RenameFrom(s, p0 + Max(ks))

\* rename\s+(.*?)\s+as\s+(.*?)($|\s|$)
RenameAt(s, i) ==
  IF ~LitAt(s, i, <<"r","e","n","a","m","e">>) THEN NoMatch
  ELSE RenameWs(s, i + 6, GreedyWs(s, i + 6, <<"a","s">>))

\* \s*= can start at q
EvalTail(s, q) == AfterWs(s, q) <= Len(s) /\ s[AfterWs(s, q)] = "="

EvalEnds(s, p) ==
  {q \in p..(Len(s) + 1) : NoNewline(s, p, q - 1) /\ EvalTail(s, q)}

EvalGroups(s, p1, q1) ==
  [ok |-> TRUE, groups |-> <<Slice(s, p1, q1)>>, end |-> AfterWs(s, q1) + 1]

EvalFrom(s, p1) == EvalGroups(s, p1, Min(EvalEnds(s, p1)))

EvalWs(s, p0, ks) ==
  IF ks = {} THEN NoMatch ELSE EvalFrom(s, p0 + Max(ks))

\* eval\s+(.*?)\s*=
EvalAt(s, i) ==
  IF ~LitAt(s, i, <<"e","v","a","l">>) THEN NoMatch
  ELSE EvalWs(s, i + 4, {k \in 1..WsRun(s, i + 4) : EvalEnds(s, i + 4 + k) # {}})

\* the end of the line that holds position p: where a greedy (.*) stops
LineEnd(s, p) ==
  IF \A k \in p..Len(s) : s[k] # "\n" THEN Len(s) + 1
  ELSE Min({k \in p..Len(s) : s[k] = "\n"})

StatsGroups(s, p1, q1, p3, q3) ==
  [ok |-> TRUE,
   groups |-> <<Slice(s, p1, q1), Slice(s, p3, q3)>>,
   end |-> q3]

StatsBy(s, p1, q1, p3) == StatsGroups(s, p1, q1, p3, LineEnd(s, p3))

StatsAgg(s, p1, q1) == StatsBy(s, p1, q1, AfterKeyword(s, q1, <<"b","y">>))

StatsFrom(s, p1) == StatsAgg(s, p1, Min(LazyEnds(s, p1, <<"b","y">>)))

StatsWs(s, p0, ks) ==
  IF ks = {} THEN NoMatch ELSE StatsFrom(s, p0 + Max(ks))

\* stats\s+(.*?)\s+by\s+(.*)
StatsAt(s, i) ==
  IF ~LitAt(s, i, <<"s","t","a","t","s">>) THEN NoMatch
  ELSE StatsWs(s, i + 5, GreedyWs(s, i + 5, <<"b","y">>))

\* the position after OUTPUT(?:NEW)? at o: NEW is taken when \s follows it
OutputEnd(s, o) ==
  IF LitAt(s, o + 6, <<"n","e","w">>) /\ IsSpaceAt(s, o + 9) THEN o + 9 ELSE o + 6

\* \s+OUTPUT(?:NEW)?\s+ can start at q
OutputAt(s, q) ==
  /\ WsRun(s, q) >= 1
  /\ LitAt(s, AfterWs(s, q), <<"o","u","t","p","u","t">>)
  /\ IsSpaceAt(s, OutputEnd(s, AfterWs(s, q)))

\* the ends of the second (.*?), when it starts at p2
InputEnds(s, p2) ==
  {q \in p2..(Len(s) + 1) : NoNewline(s, p2, q - 1) /\ OutputAt(s, q)}

\* the lengths of the second \s+, when the first (.*?) ends at q1
TableGaps(s, q1) == {g \in 1..WsRun(s, q1) : InputEnds(s, q1 + g) # {}}

\* the ends of the first (.*?), when it starts at p1
TableEnds(s, p1) ==
  {q \in p1..(Len(s) + 1) : NoNewline(s, p1, q - 1) /\ TableGaps(s, q) # {}}

LookupGroups(s, p1, q1, p2, q2, p3, q3) ==
  [ok |-> TRUE,
   groups |-> <<Slice(s, p1, q1), Slice(s, p2, q2), Slice(s, p3, q3)>>,
   end |-> q3]

LookupOutput(s, p1, q1, p2, q2, p3) ==
  LookupGroups(s, p1, q1, p2, q2, p3, LineEnd(s, p3))

LookupInput(s, p1, q1, p2, q2) ==
  LookupOutput(s, p1, q1, p2, q2, AfterWs(s, OutputEnd(s, AfterWs(s, q2))))

LookupGap(s, p1, q1, p2) == LookupInput(s, p1, q1, p2, Min(InputEnds(s, p2)))

LookupTable(s, p1, q1) == LookupGap(s, p1, q1, q1 + Max(TableGaps(s, q1)))

LookupFrom(s, p1) == LookupTable(s, p1, Min(TableEnds(s, p1)))

LookupWs(s, p0, ks) ==
  IF ks = {} THEN NoMatch ELSE LookupFrom(s, p0 + Max(ks))

\* lookup\s+(.*?)\s+(.*?)\s+OUTPUT(?:NEW)?\s+(.*)
LookupAt(s, i) ==
  IF ~LitAt(s, i, <<"l","o","o","k","u","p">>) THEN NoMatch
  ELSE LookupWs(s, i + 6, {k \in 1..WsRun(s, i + 6) : TableEnds(s, i + 6 + k) # {}})

(***************************************************************************)
(* pattern.findall(s): the matches from left to right, each search         *)
(* resuming where the previous match ended.  A pattern with one group      *)
(* yields the group, a pattern with several yields the tuple of groups.    *)
(***************************************************************************)
RECURSIVE RenameFindall(_, _)
RenameMatches(s, m) == <<m.groups>> \o RenameFindall(s, m.end)
RenameScan(s, starts) ==
  IF starts = {} THEN <<>> ELSE RenameMatches(s, RenameAt(s, Min(starts)))
RenameFindall(s, pos) ==
  RenameScan(s, {i \in pos..Len(s) : RenameAt(s, i).ok})

RECURSIVE EvalFindall(_, _)
EvalMatches(s, m) == <<m.groups[1]>> \o EvalFindall(s, m.end)
EvalScan(s, starts) ==
  IF starts = {} THEN <<>> ELSE EvalMatches(s, EvalAt(s, Min(starts)))
EvalFindall(s, pos) ==
  EvalScan(s, {i \in pos..Len(s) : EvalAt(s, i).ok})

RECURSIVE StatsFindall(_, _)
StatsMatches(s, m) == <<m.groups>> \o StatsFindall(s, m.end)
StatsScan(s, starts) ==
  IF starts = {} THEN <<>> ELSE StatsMatches(s, StatsAt(s, Min(starts)))
StatsFindall(s, pos) ==
  StatsScan(s, {i \in pos..Len(s) : StatsAt(s, i).ok})

RECURSIVE LookupFindall(_, _)
LookupMatches(s, m) == <<m.groups>> \o LookupFindall(s, m.end)
LookupScan(s, starts) ==
  IF starts = {} THEN <<>> ELSE LookupMatches(s, LookupAt(s, Min(starts)))
LookupFindall(s, pos) ==
  LookupScan(s, {i \in pos..Len(s) : LookupAt(s, i).ok})

\* a, b, c = match: the unpacking raises ValueError unless match has n items
UnpackRaises(matches, n) == \E i \in 1..Len(matches) : Len(matches[i]) # n

RECURSIVE Concat(_)
Concat(seqs) ==
  IF seqs = <<>> THEN <<>> ELSE Head(seqs) \o Concat(Tail(seqs))

(***************************************************************************)
(* The extractors.  Each returns the list the function returns, and        *)
(* whether it raised instead.                                              *)
(***************************************************************************)
Raised == [raised |-> TRUE, fields |-> <<>>]

Returned(fields) == [raised |-> FALSE, fields |-> fields]

RenamePairs(matches) ==
  IF UnpackRaises(matches, 3) THEN Raised
  ELSE Returned([i \in 1..Len(matches) |->
                   <<Strip(matches[i][1]), Strip(matches[i][2])>>])

extract_fields_from_rename(command) == RenamePairs(RenameFindall(command, 1))

extract_fields_from_eval(command) ==
  Returned(StripAll(EvalFindall(command, 1)))

\* the rest of r'\s*\w+\((.*?)\)\s*as\s*(\w+)' can match from the ')' at q
AliasAt(t, q) ==
  /\ q <= Len(t) /\ t[q] = ")"
  /\ LitAt(t, AfterWs(t, q + 1), <<"a","s">>)
  /\ WordRun(t, AfterWs(t, AfterWs(t, q + 1) + 2)) >= 1

AliasEnds(t, p) ==
  {q \in p..Len(t) : NoNewline(t, p, q - 1) /\ AliasAt(t, q)}

AliasWord(t, y) == Slice(t, y, y + WordRun(t, y))

AliasGroups(t, p, q) ==
  [ok |-> TRUE,
   groups |-> <<Slice(t, p, q), AliasWord(t, AfterWs(t, AfterWs(t, q + 1) + 2))>>]

\* f is the position of the function name, after the leading \s*
AliasFrom(t, f) ==
  IF /\ WordRun(t, f) >= 1
     /\ f + WordRun(t, f) <= Len(t)
     /\ t[f + WordRun(t, f)] = "("
     /\ AliasEnds(t, f + WordRun(t, f) + 1) # {}
    THEN AliasGroups(t, f + WordRun(t, f) + 1,
                     Min(AliasEnds(t, f + WordRun(t, f) + 1)))
    ELSE [ok |-> FALSE, groups |-> <<>>]

\* re.match(r'\s*\w+\((.*?)\)\s*as\s*(\w+)', t, re.IGNORECASE)
AggAliasMatch(t) == AliasFrom(t, AfterWs(t, 1))

\* the ')' that can close the call whose name starts at i
InnerEnds(part, i) ==
  {q \in (i + WordRun(part, i) + 1)..Len(part) :
     part[q] = ")" /\ NoNewline(part, i + WordRun(part, i) + 1, q - 1)}

InnerAt(part, i) ==
  <<Slice(part, i + WordRun(part, i) + 1, Min(InnerEnds(part, i)))>>

InnerScan(part, starts) ==
  IF starts = {} THEN <<>> ELSE InnerAt(part, Min(starts))

\* re.findall(r'\w+\((.*?)\)', part): only the first element is read
AggInnerFirst(part) ==
  InnerScan(part,
    {i \in 1..Len(part) :
       /\ part[i] \in WordChars
       /\ i + WordRun(part, i) <= Len(part)
       /\ part[i + WordRun(part, i)] = "("
       /\ InnerEnds(part, i) # {}})

AggChoice(agg_match, agg_inner) ==
  IF agg_match.ok THEN <<Strip(agg_match.groups[2])>>
  ELSE IF agg_inner # <<>> THEN <<Strip(agg_inner[1])>>
  ELSE <<>>

\* the fields one aggregation term appends
AggPartFields(part) == AggChoice(AggAliasMatch(Strip(part)), AggInnerFirst(part))

AggFields(agg_parts) ==
  Concat([i \in 1..Len(agg_parts) |-> AggPartFields(agg_parts[i])])

\* the fields one match of the stats pattern appends
StatsMatchFields(match) ==
  AggFields(Split(match[1], ",")) \o StripAll(Split(match[2], ","))

StatsFields(matches) ==
  IF UnpackRaises(matches, 2) THEN Raised
  ELSE Returned(Concat([i \in 1..Len(matches) |-> StatsMatchFields(matches[i])]))

extract_fields_from_stats(command) == StatsFields(StatsFindall(command, 1))

\* the fields one match of the lookup pattern appends
LookupMatchFields(match) ==
  StripAll(Split(match[2], ",")) \o StripAll(Split(match[3], ","))

LookupFields(matches) ==
  IF UnpackRaises(matches, 3) THEN Raised
  ELSE Returned(Concat([i \in 1..Len(matches) |-> LookupMatchFields(matches[i])]))

extract_fields_from_lookup(command) == LookupFields(LookupFindall(command, 1))

\* re.findall(r'\b(\w+)=', cmd): the whole words directly followed by '='
KeyEqualsWords(cmd) ==
  {Slice(cmd, i, i + WordRun(cmd, i)) :
     i \in {k \in 1..Len(cmd) :
              /\ cmd[k] \in WordChars
              /\ (k = 1 \/ cmd[k - 1] \notin WordChars)
              /\ k + WordRun(cmd, k) <= Len(cmd)
              /\ cmd[k + WordRun(cmd, k)] = "="}}

\* re.findall(r'\b(\w+)\b', cmd): the whole words
BareWords(cmd) ==
  {Slice(cmd, i, i + WordRun(cmd, i)) :
     i \in {k \in 1..Len(cmd) :
              /\ cmd[k] \in WordChars
              /\ (k = 1 \/ cmd[k - 1] \notin WordChars)}}

\* used_fields of the search/where/table/fields/fillnull/coalesce branch
FallbackFields(cmd) ==
  IF KeyEqualsWords(cmd) # {} THEN KeyEqualsWords(cmd) ELSE BareWords(cmd)

\* [cmd.strip() for cmd in search_query.split('|') if cmd.strip()]
SplitCommands(search_query) ==
  SelectSeq(StripAll(Split(search_query, "|")), LAMBDA c : c # <<>>)

\* re.match(r'(\w+)', cmd): the length of the leading word, 0 when no match
CmdTypeLen(cmd) == WordRun(cmd, 1)

\* cmd_type_match.group(1).lower()
CmdType(cmd) == LowerStr(SubSeq(cmd, 1, CmdTypeLen(cmd)))

FallbackVerbs ==
  {<<"s","e","a","r","c","h">>, <<"w","h","e","r","e">>, <<"t","a","b","l","e">>, <<"f","i","e","l","d","s">>, <<"f","i","l","l","n","u","l","l">>, <<"c","o","a","l","e","s","c","e">>}

(***************************************************************************)
(* CIM_FIELD_MAPPINGS: a dict keeps insertion order, so the table is the   *)
(* sequence of its sources, each the sequence of its (custom, cim) items.  *)
(***************************************************************************)
CIM_FIELD_MAPPINGS ==
  << [source |-> <<"c","o","m","m","o","n">>, items |->
        << <<<<"s","r","c","_","i","p">>, <<"s","o","u","r","c","e">>>>,
           <<<<"d","s","t","_","i","p">>, <<"d","e","s","t","i","n","a","t","i","o","n">>>>,
           <<<<"u","s","e","r">>, <<"u","s","e","r">>>>,
           <<<<"h","o","s","t">>, <<"h","o","s","t">>>>,
           <<<<"s","o","u","r","c","e","t","y","p","e">>, <<"s","o","u","r","c","e","t","y","p","e">>>>,
           <<<<"i","n","d","e","x">>, <<"i","n","d","e","x">>>>,
           <<<<"s","o","u","r","c","e">>, <<"s","o","u","r","c","e">>>>,
           <<<<"e","v","e","n","t","_","i","d">>, <<"e","v","e","n","t","_","i","d">>>>,
           <<<<"a","c","t","i","o","n">>, <<"a","c","t","i","o","n">>>>,
           <<<<"s","t","a","t","u","s">>, <<"s","t","a","t","u","s">>>>,
           <<<<"u","r","i">>, <<"u","r","i">>>>,
           <<<<"m","e","t","h","o","d">>, <<"m","e","t","h","o","d">>>> >>],
     [source |-> <<"c","r","o","w","d","s","t","r","i","k","e">>, items |->
        << <<<<"d","e","v","i","c","e","_","i","d">>, <<"d","e","v","i","c","e">>>>,
           <<<<"p","r","o","c","e","s","s","_","n","a","m","e">>, <<"p","r","o","c","e","s","s">>>>,
           <<<<"u","s","e","r","_","i","d">>, <<"u","s","e","r">>>>,
           <<<<"a","l","e","r","t","_","i","d">>, <<"a","l","e","r","t","_","i","d">>>> >>],
     [source |-> <<"b","l","u","e","c","o","a","t">>, items |->
        << <<<<"u","r","l">>, <<"u","r","i">>>>,
           <<<<"r","e","s","p","o","n","s","e","_","c","o","d","e">>, <<"s","t","a","t","u","s">>>>,
           <<<<"a","c","t","i","o","n","_","t","a","k","e","n">>, <<"a","c","t","i","o","n">>>>,
           <<<<"b","y","t","e","s","_","t","r","a","n","s","f","e","r","r","e","d">>, <<"b","y","t","e","s">>>> >>],
     [source |-> <<"c","h","e","c","k","p","o","i","n","t">>, items |->
        << <<<<"p","o","l","i","c","y","_","n","a","m","e">>, <<"p","o","l","i","c","y">>>>,
           <<<<"r","u","l","e","_","n","u","m","b","e","r">>, <<"r","u","l","e","_","n","u","m","b","e","r">>>>,
           <<<<"s","o","u","r","c","e","_","z","o","n","e">>, <<"s","o","u","r","c","e","_","z","o","n","e">>>>,
           <<<<"d","e","s","t","i","n","a","t","i","o","n","_","z","o","n","e">>, <<"d","e","s","t","i","n","a","t","i","o","n","_","z","o","n","e">>>> >>],
     [source |-> <<"w","i","n","d","o","w","s">>, items |->
        << <<<<"w","i","n","_","l","o","g","o","n","_","i","d">>, <<"l","o","g","o","n","_","i","d">>>>,
           <<<<"w","i","n","_","e","v","e","n","t","_","c","o","d","e">>, <<"e","v","e","n","t","_","c","o","d","e">>>>,
           <<<<"w","i","n","_","a","c","c","o","u","n","t","_","n","a","m","e">>, <<"a","c","c","o","u","n","t">>>>,
           <<<<"w","i","n","_","p","r","o","c","e","s","s","_","i","d">>, <<"p","r","o","c","e","s","s","_","i","d">>>> >>],
     [source |-> <<"a","w","s">>, items |->
        << <<<<"a","w","s","_","a","c","c","o","u","n","t","_","i","d">>, <<"a","c","c","o","u","n","t","_","i","d">>>>,
           <<<<"a","w","s","_","r","e","g","i","o","n">>, <<"r","e","g","i","o","n">>>>,
           <<<<"a","w","s","_","s","e","r","v","i","c","e">>, <<"s","e","r","v","i","c","e">>>>,
           <<<<"a","w","s","_","e","v","e","n","t","_","t","y","p","e">>, <<"e","v","e","n","t","_","t","y","p","e">>>> >>],
     [source |-> <<"g","c","p">>, items |->
        << <<<<"g","c","p","_","p","r","o","j","e","c","t","_","i","d">>, <<"p","r","o","j","e","c","t","_","i","d">>>>,
           <<<<"g","c","p","_","r","e","g","i","o","n">>, <<"r","e","g","i","o","n">>>>,
           <<<<"g","c","p","_","s","e","r","v","i","c","e">>, <<"s","e","r","v","i","c","e">>>>,
           <<<<"g","c","p","_","e","v","e","n","t","_","t","y","p","e">>, <<"e","v","e","n","t","_","t","y","p","e">>>> >>] >>

\* the (custom, cim) items of every source, in iteration order
AllItems(table) == Concat([i \in 1..Len(table) |-> table[i].items])

\* ALL_CIM_FIELDS: the values of every source's mapping
ALL_CIM_FIELDS(table) == {it[2] : it \in Range(AllItems(table))}

\* 'field in mappings' for some source: field is a key of a source's dict
Mapped(field, table) ==
  \E i \in 1..Len(table) : \E it \in Range(table[i].items) : it[1] = field

\* NonCompliant without the look at the source-specific mappings (lines
\* 205-209 left out): C5 does not hold of it
NonCompliantCanonicalOnly(field, table) == field \notin ALL_CIM_FIELDS(table)

\* the test that guards violations.append in check_cim_compliance
NonCompliant(field, table) ==
  field \notin ALL_CIM_FIELDS(table) /\ ~Mapped(field, table)

Violation(field) ==
  [field |-> field,
   issue |-> "Field is not CIM-compliant.",
   suggestion |->
     "Map the field to a CIM-compliant field or use field aliases to conform to CIM."]

\* fields_usage = defaultdict(set): a category never added to reads as empty
EmptyUsage == [used |-> {}, created |-> {}, renamed |-> {}]

\* all_fields: the union of fields_usage.values()
AllFields(usage) == usage.used \cup usage.created \cup usage.renamed

(***************************************************************************)
(* get_field_aliases and suggest_alias.  aliases is a defaultdict(list):   *)
(* the sequence of its (cim_field, custom_fields) entries in insertion     *)
(* order.                                                                  *)
(***************************************************************************)
\* aliases[cim_field].append(custom_field)
AliasAppend(aliases, item) ==
  IF \E i \in 1..Len(aliases) : aliases[i].cim = item[2]
    THEN [i \in 1..Len(aliases) |->
            IF aliases[i].cim = item[2]
              THEN [aliases[i] EXCEPT !.customs = Append(@, item[1])]
              ELSE aliases[i]]
    ELSE Append(aliases, [cim |-> item[2], customs |-> <<item[1]>>])

\* AliasMatches without the two lower() calls: C6 does not hold of it
AliasMatchesExact(field, custom_fields) == field \in Range(custom_fields)

\* field.lower() in [cf.lower() for cf in custom_fields]
AliasMatches(field, custom_fields) ==
  LowerStr(field) \in {LowerStr(cf) : cf \in Range(custom_fields)}

(***************************************************************************)
(* Inputs.  A query is a pipeline of stages of StagePool joined by ' | ',  *)
(* or one of the degenerate texts.                                         *)
(***************************************************************************)
MaxStages == 2

StagePool ==
  { <<"r","e","n","a","m","e"," ","e","v","e","n","t","N","a","m","e"," ","a","s"," ","a","c","t","i","o","n">>,
    <<"r","e","n","a","m","e"," ","a"," ","A","S"," ","f","o","o",","," ","b"," ","a","s"," ","u","s","e","r">>,
    <<"e","v","a","l"," ","f","o","o"," ","="," ","1">>,
    <<"s","t","a","t","s"," ","c","o","u","n","t","(","u","s","e","r",")"," ","a","s"," ","f","o","o"," ","b","y"," ","s","r","c","_","i","p">>,
    <<"s","t","a","t","s"," ","s","u","m","(","b","y","t","e","s",")"," ","b","y"," ","s","r","c","_","i","p">>,
    <<"l","o","o","k","u","p"," ","T"," ","s","r","c","_","i","p",","," ","u","s","e","r"," ","O","U","T","P","U","T"," ","f","o","o",","," ","b","a","r">>,
    <<"s","e","a","r","c","h"," ","["," ","s","e","a","r","c","h"," ","u","s","e","r","=","a"," ","|"," ","f","i","e","l","d","s"," ","f","o","o"," ","]">>,
    <<"w","h","e","r","e"," ","f","o","o"," ",">"," ","1">>,
    <<"i","n","d","e","x","=","m","a","i","n"," ","s","o","u","r","c","e","t","y","p","e","=","x">>,
    <<"["," ","s","e","a","r","c","h"," ","u","s","e","r","=","a"," ","]">>,
    <<"r","e","n","a","m","e"," ","f","o","o">>,
    <<"e","v","a","l"," ","f","o","o">>,
    <<"s","t","a","t","s"," ","c","o","u","n","t","(","f","o","o",")">>,
    <<"l","o","o","k","u","p"," ","T"," ","f","o","o">> }

DegenerateQueries ==
  { <<>>, <<" "," ","\n"," ">>, <<"|","|","|">>, <<" ","|"," ","\t","|"," ">> }

RECURSIVE JoinStages(_)
JoinStages(stages) ==
  IF stages = <<>> THEN <<>>
  ELSE IF Len(stages) = 1 THEN stages[1]
  ELSE stages[1] \o <<" ","|"," ">> \o JoinStages(Tail(stages))

Pipelines ==
  UNION {[1..n -> StagePool] : n \in 0..MaxStages}

Queries == {JoinStages(p) : p \in Pipelines} \cup DegenerateQueries

\* the query of the __main__ block, and the same pipeline on one line
ExampleQuery ==
  <<"\n"," "," "," "," "," "," "," "," ","i","n","d","e","x","=","a","w","s","_","c","l","o","u","d","t","r","a","i","l"," ","s","o","u","r","c","e","t","y","p","e","=","a","w","s",":","c","l","o","u","d","t","r","a","i","l","\n"," "," "," "," "," "," "," "," ","|"," ","r","e","n","a","m","e"," ","e","v","e","n","t","N","a","m","e"," ","a","s"," ","a","c","t","i","o","n",","," ","s","o","u","r","c","e","I","P","A","d","d","r","e","s","s"," ","a","s"," ","s","r","c","_","i","p","\n"," "," "," "," "," "," "," "," ","|"," ","e","v","a","l"," ","u","s","e","r","_","f","u","l","l","n","a","m","e"," ","="," ","u","s","e","r",".","f","i","r","s","t"," ","+"," ","\""," ","\""," ","+"," ","u","s","e","r",".","l","a","s","t","\n"," "," "," "," "," "," "," "," ","|"," ","s","t","a","t","s"," ","c","o","u","n","t"," ","b","y"," ","s","r","c","_","i","p",","," ","u","s","e","r","_","f","u","l","l","n","a","m","e","\n"," "," "," "," "," "," "," "," ","|"," ","l","o","o","k","u","p"," ","a","w","s","_","r","e","g","i","o","n","s"," ","r","e","g","i","o","n","_","c","o","d","e"," ","a","s"," ","s","r","c","_","r","e","g","i","o","n"," ","O","U","T","P","U","T","N","E","W"," ","r","e","g","i","o","n","_","n","a","m","e"," ","a","s"," ","s","r","c","_","r","e","g","i","o","n","_","n","a","m","e","\n"," "," "," "," "," "," "," "," ","|"," ","w","h","e","r","e"," ","c","o","u","n","t"," ",">"," ","1","0","0","\n"," "," "," "," ">>

ScenarioQuery ==
  <<"i","n","d","e","x","=","a","w","s","_","c","l","o","u","d","t","r","a","i","l"," ","s","o","u","r","c","e","t","y","p","e","=","a","w","s",":","c","l","o","u","d","t","r","a","i","l"," ","|"," ","r","e","n","a","m","e"," ","e","v","e","n","t","N","a","m","e"," ","a","s"," ","a","c","t","i","o","n",","," ","s","o","u","r","c","e","I","P","A","d","d","r","e","s","s"," ","a","s"," ","s","r","c","_","i","p"," ","|"," ","e","v","a","l"," ","u","s","e","r","_","f","u","l","l","n","a","m","e"," ","="," ","u","s","e","r",".","f","i","r","s","t"," ","+"," ","\""," ","\""," ","+"," ","u","s","e","r",".","l","a","s","t"," ","|"," ","s","t","a","t","s"," ","c","o","u","n","t"," ","b","y"," ","s","r","c","_","i","p",","," ","u","s","e","r","_","f","u","l","l","n","a","m","e"," ","|"," ","l","o","o","k","u","p"," ","a","w","s","_","r","e","g","i","o","n","s"," ","r","e","g","i","o","n","_","c","o","d","e"," ","a","s"," ","s","r","c","_","r","e","g","i","o","n"," ","O","U","T","P","U","T","N","E","W"," ","r","e","g","i","o","n","_","n","a","m","e"," ","a","s"," ","s","r","c","_","r","e","g","i","o","n","_","n","a","m","e"," ","|"," ","w","h","e","r","e"," ","c","o","u","n","t"," ",">"," ","1","0","0">>

\* a table with keys that differ only in case and empty per-source maps
SampleMappings ==
  << [source |-> <<"p","r","o","x","y">>, items |->
        << <<<<"U","R","L">>, <<"u","r","i">>>>,
           <<<<"U","r","l">>, <<"w","e","b">>>>,
           <<<<"d","e","s","t">>, <<"d","e","s","t","i","n","a","t","i","o","n">>>> >>],
     [source |-> <<"e","m","p","t","y">>, items |-> <<>>],
     [source |-> <<"f","w">>, items |->
        << <<<<"u","r","l">>, <<"u","r","i">>>>,
           <<<<"D","E","S","T">>, <<"d","e","s","t","_","i","p">>>>,
           <<<<"D","e","s","t">>, <<"d","e","s","t","i","n","a","t","i","o","n">>>> >>] >>

\* a table in which a canonical field is first named by another key than the
\* one a later source maps to it
InterleavedMappings ==
  << [source |-> <<"a">>, items |->
        << <<<<"s","r","c">>, <<"d","e","s","t","_","i","p">>>>,
           <<<<"d","e","s","t">>, <<"d","e","s","t","i","n","a","t","i","o","n">>>> >>],
     [source |-> <<"b">>, items |->
        << <<<<"D","E","S","T">>, <<"d","e","s","t","_","i","p">>>> >>] >>

\* the tables a process can be started with, by name
MappingTables == {"CIM_FIELD_MAPPINGS", "SampleMappings", "InterleavedMappings"}

TableOf(name) ==
  IF name = "CIM_FIELD_MAPPINGS" THEN CIM_FIELD_MAPPINGS
  ELSE IF name = "SampleMappings" THEN SampleMappings
  ELSE InterleavedMappings

AliasFields ==
  { <<"u","r","l">>, <<"U","R","L">>, <<"d","e","s","t">>, <<"u","s","e","r">>, <<"U","s","e","r","_","I","D">>, <<"s","r","c","_","i","p">>,
    <<"A","W","S","_","R","e","g","i","o","n">>, <<"u","r","i">>, <<"z","z","z">>, <<>> }

(***************************************************************************)
(* State.                                                                  *)
(***************************************************************************)
VARIABLES
  mappings,      \* the name of the mapping table of the process
  search_query,  \* the argument of check_cim_compliance
  pc,            \* where the analysis stands
  commands,      \* parse_search_query: the stages
  idx,           \* parse_search_query: the stage the loop is at
  fields_usage,  \* parse_search_query: the three categories
  all_fields,    \* check_cim_compliance: the combined set
  todo,          \* check_cim_compliance: fields the loop has not visited
  violations,    \* check_cim_compliance: the list built so far
  prior,         \* the results of an earlier run on the same input
  field,         \* the argument of suggest_alias
  aliases,       \* get_field_aliases: the reverse mapping built so far
  scan,          \* get_field_aliases: the next item of the table
  suggestions,   \* suggest_alias: the list built so far
  searches,      \* analysis_suite.main: the loaded (name, query) items
  analysed,      \* analysis_suite.main: how many searches the loop has done
  report,        \* analysis_suite.main: the entries stored so far
  main_pc        \* analysis_suite.main: where main stands

vars == <<mappings, search_query, pc, commands, idx, fields_usage, all_fields,
          todo, violations, prior, field, aliases, scan, suggestions,
          searches, analysed, report, main_pc>>

analysisVars == <<commands, idx, fields_usage, all_fields, todo, violations>>
aliasVars    == <<field, aliases, scan, suggestions>>
suiteVars    == <<searches, analysed, report, main_pc>>

NoPrior == [run |-> "none"]

\* analysis_suite.main is not running
SuiteIdle ==
  /\ searches = <<>>
  /\ analysed = 0
  /\ report = <<>>
  /\ main_pc = "idle"

Fresh ==
  /\ commands = <<>>
  /\ idx = 1
  /\ fields_usage = EmptyUsage
  /\ all_fields = {}
  /\ todo = {}
  /\ violations = <<>>
  /\ prior = NoPrior
  /\ aliases = <<>>
  /\ scan = 1
  /\ suggestions = <<>>

\* check_cim_compliance is called on a query
InitOn(queries) ==
  /\ mappings = "CIM_FIELD_MAPPINGS"
  /\ search_query \in queries
  /\ pc = "parse"
  /\ field = <<>>
  /\ Fresh
  /\ SuiteIdle

Init == InitOn(Queries)

(***************************************************************************)
(* parse_search_query                                                      *)
(***************************************************************************)
\* line 146: the query is split into commands
Segment ==
  /\ pc = "parse"
  /\ commands' = SplitCommands(search_query)
  /\ idx' = 1
  /\ fields_usage' = EmptyUsage
  /\ pc' = "stages"
  /\ UNCHANGED <<mappings, search_query, all_fields, todo, violations, prior>>
  /\ UNCHANGED aliasVars
  /\ UNCHANGED suiteVars

AtStage == pc = "stages" /\ idx <= Len(commands)

\* one iteration of the loop ends: the usage is updated, or the call raised
StageEnds(raised, usage) ==
  /\ fields_usage' = usage
  /\ idx' = idx + 1
  /\ pc' = IF raised THEN "raised" ELSE "stages"
  /\ UNCHANGED <<mappings, search_query, commands, all_fields, todo,
                 violations, prior>>
  /\ UNCHANGED aliasVars
  /\ UNCHANGED suiteVars

\* AddFields with the category's set replaced by the stage's fields instead
\* of extended by them: C13 does not hold of it
AddFieldsOverwrite(category, r) ==
  StageEnds(r.raised,
    [fields_usage EXCEPT ![category] =
       IF category = "renamed"
         THEN {p[2] : p \in Range(r.fields)}
         ELSE Range(r.fields)])

\* 'for ... in <list>: fields_usage[category].add(...)' on an extractor's
\* result r; for rename the list holds (old, new) pairs and new is added
AddFields(category, r) ==
  StageEnds(r.raised,
    [fields_usage EXCEPT ![category] =
       @ \cup IF category = "renamed"
                THEN {p[2] : p \in Range(r.fields)}
                ELSE Range(r.fields)])

\* lines 153-155: no leading word, the stage is skipped
StageNoVerb ==
  /\ AtStage
  /\ CmdTypeLen(commands[idx]) = 0
  /\ StageEnds(FALSE, fields_usage)

HasVerb(verb) ==
  /\ AtStage
  /\ CmdTypeLen(commands[idx]) > 0
  /\ CmdType(commands[idx]) = verb

\* lines 158-161
StageRename ==
  /\ HasVerb(<<"r","e","n","a","m","e">>)
  /\ AddFields("renamed", extract_fields_from_rename(commands[idx]))

\* lines 162-165
StageEval ==
  /\ HasVerb(<<"e","v","a","l">>)
  /\ AddFields("created", extract_fields_from_eval(commands[idx]))

\* lines 166-169
StageStats ==
  /\ HasVerb(<<"s","t","a","t","s">>)
  /\ AddFields("used", extract_fields_from_stats(commands[idx]))

\* lines 170-173
StageLookup ==
  /\ HasVerb(<<"l","o","o","k","u","p">>)
  /\ AddFields("used", extract_fields_from_lookup(commands[idx]))

\* lines 174-182
StageFallback ==
  /\ AtStage
  /\ CmdTypeLen(commands[idx]) > 0
  /\ CmdType(commands[idx]) \in FallbackVerbs
  /\ StageEnds(FALSE,
       [fields_usage EXCEPT !.used = @ \cup FallbackFields(commands[idx])])

DispatchedVerbs ==
  {<<"r","e","n","a","m","e">>, <<"e","v","a","l">>, <<"s","t","a","t","s">>, <<"l","o","o","k","u","p">>} \cup FallbackVerbs

\* line 183: no branch of the if chain takes any other verb
StageOther ==
  /\ AtStage
  /\ CmdTypeLen(commands[idx]) > 0
  /\ CmdType(commands[idx]) \notin DispatchedVerbs
  /\ StageEnds(FALSE, fields_usage)

(***************************************************************************)
(* check_cim_compliance                                                    *)
(***************************************************************************)
\* lines 185, 193-198: parse_search_query returns, the sets are combined
Combine ==
  /\ pc = "stages"
  /\ idx > Len(commands)
  /\ all_fields' = AllFields(fields_usage)
  /\ todo' = AllFields(fields_usage)
  /\ violations' = <<>>
  /\ pc' = "check"
  /\ UNCHANGED <<mappings, search_query, commands, idx, fields_usage, prior>>
  /\ UNCHANGED aliasVars
  /\ UNCHANGED suiteVars

\* lines 201-215: one iteration of 'for field in all_fields'.  The order in
\* which a set of str is iterated depends on the process's hash seed, so the
\* loop may visit any field it has not visited.
CheckField ==
  /\ pc = "check"
  /\ \E f \in todo :
       /\ todo' = todo \ {f}
       /\ violations' = IF NonCompliant(f, TableOf(mappings))
                          THEN Append(violations, Violation(f))
                          ELSE violations
  /\ UNCHANGED <<mappings, search_query, pc, commands, idx, fields_usage,
                 all_fields, prior>>
  /\ UNCHANGED aliasVars
  /\ UNCHANGED suiteVars

\* line 217
Return ==
  /\ pc = "check"
  /\ todo = {}
  /\ pc' = "done"
  /\ UNCHANGED <<mappings, search_query, prior>>
  /\ UNCHANGED analysisVars
  /\ UNCHANGED aliasVars
  /\ UNCHANGED suiteVars

Analyse ==
  \/ Segment
  \/ StageNoVerb
  \/ StageRename
  \/ StageEval
  \/ StageStats
  \/ StageLookup
  \/ StageFallback
  \/ StageOther
  \/ Combine
  \/ CheckField
  \/ Return

Next == Analyse

Spec == Init /\ [][Next]_vars

(***************************************************************************)
(* The __main__ block: check_cim_compliance on the example query.          *)
(***************************************************************************)
SingleStageQueries == {JoinStages(p) : p \in [1..1 -> StagePool]}

\* the example query, next to the one-stage pipelines
InitExample == InitOn({ExampleQuery, ScenarioQuery} \cup SingleStageQueries)

SpecExample == InitExample /\ [][Next]_vars

(***************************************************************************)
(* The tool is run again on the same saved search: a new process, with a   *)
(* hash seed of its own, analyses the same query against the same table.   *)
(***************************************************************************)
InitTwice == InitOn(SingleStageQueries \cup DegenerateQueries)

Reinvoke ==
  /\ pc = "done"
  /\ prior = NoPrior
  /\ prior' = [run |-> "done", usage |-> fields_usage, violations |-> violations]
  /\ pc' = "parse"
  /\ commands' = <<>>
  /\ idx' = 1
  /\ fields_usage' = EmptyUsage
  /\ all_fields' = {}
  /\ todo' = {}
  /\ violations' = <<>>
  /\ UNCHANGED <<mappings, search_query>>
  /\ UNCHANGED aliasVars
  /\ UNCHANGED suiteVars

NextTwice == Analyse \/ Reinvoke

SpecTwice == InitTwice /\ [][NextTwice]_vars

(***************************************************************************)
(* suggest_alias(field), with get_field_aliases inlined: scan walks the    *)
(* table's items while aliases is built, then the entries of aliases.      *)
(***************************************************************************)
InitAlias ==
  /\ mappings \in MappingTables
  /\ field \in AliasFields
  /\ search_query = <<>>
  /\ pc = "aliases"
  /\ Fresh
  /\ SuiteIdle

\* lines 225-227: one iteration of the nested loops of get_field_aliases
AliasInsert ==
  /\ pc = "aliases"
  /\ scan <= Len(AllItems(TableOf(mappings)))
  /\ aliases' = AliasAppend(aliases, AllItems(TableOf(mappings))[scan])
  /\ scan' = scan + 1
  /\ UNCHANGED <<mappings, search_query, pc, prior, field, suggestions>>
  /\ UNCHANGED analysisVars
  /\ UNCHANGED suiteVars

\* lines 228, 234-235: get_field_aliases returns
AliasesBuilt ==
  /\ pc = "aliases"
  /\ scan > Len(AllItems(TableOf(mappings)))
  /\ pc' = "suggest"
  /\ scan' = 1
  /\ suggestions' = <<>>
  /\ UNCHANGED <<mappings, search_query, prior, field, aliases>>
  /\ UNCHANGED analysisVars
  /\ UNCHANGED suiteVars

\* lines 236-238: one iteration of 'for cim_field, custom_fields in aliases.items()'
SuggestStep ==
  /\ pc = "suggest"
  /\ scan <= Len(aliases)
  /\ suggestions' = IF AliasMatches(field, aliases[scan].customs)
                      THEN Append(suggestions, aliases[scan].cim)
                      ELSE suggestions
  /\ scan' = scan + 1
  /\ UNCHANGED <<mappings, search_query, pc, prior, field, aliases>>
  /\ UNCHANGED analysisVars
  /\ UNCHANGED suiteVars

\* line 239
SuggestReturn ==
  /\ pc = "suggest"
  /\ scan > Len(aliases)
  /\ pc' = "suggested"
  /\ UNCHANGED <<mappings, search_query, prior>>
  /\ UNCHANGED aliasVars
  /\ UNCHANGED analysisVars
  /\ UNCHANGED suiteVars

NextAlias ==
  \/ AliasInsert
  \/ AliasesBuilt
  \/ SuggestStep
  \/ SuggestReturn

SpecAlias == InitAlias /\ [][NextAlias]_vars

(***************************************************************************)
(* analysis_suite.main, from the return of load_saved_searches on.  A call *)
(* with another number of arguments than the callee's definition requires  *)
(* raises TypeError before the callee runs, and main catches nothing.      *)
(***************************************************************************)
MaxSearches == 2

SearchNames == {"Sample Search", "Failed Logins", "Top Talkers"}

SuiteQueries == DegenerateQueries \cup {ScenarioQuery}

\* the positional parameters of the definitions, none of them with a default
RequiredArgs(fn) ==
  CASE fn = "check_best_practices" -> Len(<<"search_name", "search_query">>)
    [] fn = "check_cim_compliance" -> Len(<<"search_name", "search_query">>)
    [] fn = "check_syntax"         -> Len(<<"service", "search_query">>)
    [] fn = "format_search"        -> Len(<<"search_query">>)

\* lines 30-35: the keys of a report entry and the calls that give their
\* values, in the order in which the dict display evaluates them
ReportCalls ==
  << [key |-> "violations", fn |-> "check_best_practices",
      args |-> <<"name", "query">>],
     [key |-> "cim_issues", fn |-> "check_cim_compliance",
      args |-> <<"query">>],
     [key |-> "syntax", fn |-> "check_syntax",
      args |-> <<"query">>],
     [key |-> "formatted_search", fn |-> "format_search",
      args |-> <<"query">>] >>

\* TypeError: missing (or too many) positional arguments
CallRaises(call) == Len(call.args) # RequiredArgs(call.fn)

EntryRaises == \E i \in 1..Len(ReportCalls) : CallRaises(ReportCalls[i])

\* the entry of a search: under each key the result of its call
ReportEntry(search) ==
  [k \in {ReportCalls[i].key : i \in 1..Len(ReportCalls)} |->
     [result_of |-> (CHOOSE i \in 1..Len(ReportCalls) : ReportCalls[i].key = k),
      query |-> search.query]]

\* report[name] = entry
ReportStore(rep, name, entry) ==
  IF \E i \in 1..Len(rep) : rep[i].name = name
    THEN [i \in 1..Len(rep) |->
            IF rep[i].name = name THEN [rep[i] EXCEPT !.entry = entry]
                                  ELSE rep[i]]
    ELSE Append(rep, [name |-> name, entry |-> entry])

\* what load_saved_searches can return: a dict, so with distinct names
SavedSearches ==
  {s \in UNION {[1..n -> [name : SearchNames, query : SuiteQueries]] :
                  n \in 0..MaxSearches} :
     \A i, j \in 1..Len(s) : s[i].name = s[j].name => i = j}

InitSuite ==
  /\ mappings = "CIM_FIELD_MAPPINGS"
  /\ search_query = <<>>
  /\ pc = "main"
  /\ field = <<>>
  /\ Fresh
  /\ searches \in SavedSearches
  /\ analysed = 0
  /\ report = <<>>
  /\ main_pc = "loop"

\* lines 28-35: one iteration of the loop over searches.items()
AnalyzeSearch ==
  /\ main_pc = "loop"
  /\ analysed < Len(searches)
  /\ IF EntryRaises
       THEN /\ main_pc' = "raised"
            /\ UNCHANGED <<report, analysed>>
       ELSE /\ report' = ReportStore(report, searches[analysed + 1].name,
                                     ReportEntry(searches[analysed + 1]))
            /\ analysed' = analysed + 1
            /\ UNCHANGED main_pc
  /\ UNCHANGED <<searches, mappings, search_query, pc, prior>>
  /\ UNCHANGED analysisVars
  /\ UNCHANGED aliasVars

\* lines 38-60: the loop over the searches is over, the report is printed
OutputReport ==
  /\ main_pc = "loop"
  /\ analysed = Len(searches)
  /\ main_pc' = "reported"
  /\ UNCHANGED <<searches, analysed, report, mappings, search_query, pc, prior>>
  /\ UNCHANGED analysisVars
  /\ UNCHANGED aliasVars

NextSuite == AnalyzeSearch \/ OutputReport

SpecSuite == InitSuite /\ [][NextSuite]_vars

(***************************************************************************)
(* Pipelines around eval stages that hold several assignments, with commas *)
(* inside parentheses and quotes, next to one stage of every other kind.   *)
(***************************************************************************)
EvalStagePool ==
  { <<"e","v","a","l"," ","f","o","o"," ","="," ","1">>,
    <<"e","v","a","l"," ","f","o","o"," ","="," ","1",","," ","b","a","r"," ","="," ","2">>,
    <<"e","v","a","l"," ","a"," ","="," ","m","a","x","(","b",","," ","c",")",","," ","d"," ","="," ","\"","x",","," ","y","\"">>,
    <<"r","e","n","a","m","e"," ","e","v","e","n","t","N","a","m","e"," ","a","s"," ","a","c","t","i","o","n">>,
    <<"s","t","a","t","s"," ","s","u","m","(","b","y","t","e","s",")"," ","b","y"," ","s","r","c","_","i","p">>,
    <<"l","o","o","k","u","p"," ","T"," ","s","r","c","_","i","p",","," ","u","s","e","r"," ","O","U","T","P","U","T"," ","f","o","o",","," ","b","a","r">>,
    <<"w","h","e","r","e"," ","f","o","o"," ",">"," ","1">>,
    <<"i","n","d","e","x","=","m","a","i","n"," ","s","o","u","r","c","e","t","y","p","e","=","x">>,
    <<"["," ","s","e","a","r","c","h"," ","u","s","e","r","=","a"," ","]">> }

EvalPipelines ==
  UNION {[1..n -> EvalStagePool] : n \in 0..MaxStages}

InitEval == InitOn({JoinStages(p) : p \in EvalPipelines})

SpecEval == InitEval /\ [][Next]_vars


(***************************************************************************)
(* Vocabulary of the properties, read off the query text alone.            *)
(***************************************************************************)
\* the whitespace-separated tokens of s
RECURSIVE WsTokens(_)
WsTokens(s) ==
  IF Strip(s) = <<>> THEN <<>>
  ELSE <<SubSeq(Strip(s), 1, NonWsRun(Strip(s), 1))>>
         \o WsTokens(SubSeq(Strip(s), NonWsRun(Strip(s), 1) + 1, Len(Strip(s))))

\* a bare field name
IsName(t) == t # <<>> /\ \A k \in 1..Len(t) : t[k] \in WordChars

\* the stage's text after its leading verb
ArgsOf(cmd) == SubSeq(cmd, WordRun(cmd, 1) + 1, Len(cmd))

VerbIs(cmd, verb) == LowerStr(SubSeq(cmd, 1, WordRun(cmd, 1))) = verb

\* the stages of the query have been folded into fields_usage
Parsed == pc \in {"check", "done"} \/ (pc = "stages" /\ idx > Len(commands))

\* the violations' fields, in order
ViolationFields == [i \in 1..Len(violations) |-> violations[i].field]

\* how many violations name field F
ViolationCount(F) == Cardinality({i \in 1..Len(violations) : violations[i].field = F})

(***************************************************************************)
(* C1.  Bracket safety: a query with a [ ... ] subsearch that holds a '|'  *)
(* is split into as many stages as the same query with the content of the  *)
(* subsearch removed.                                                      *)
(***************************************************************************)
\* the bracket depth before position i
DepthBefore(s, i) ==
  Cardinality({k \in 1..(i - 1) : s[k] = "["})
    - Cardinality({k \in 1..(i - 1) : s[k] = "]"})

\* position i lies inside a subsearch (the brackets themselves do not)
InsideSubsearch(s, i) ==
  DepthBefore(s, i) >= 1 /\ ~(s[i] = "]" /\ DepthBefore(s, i) = 1)

RECURSIVE KeepOutside(_, _)
KeepOutside(s, i) ==
  IF i > Len(s) THEN <<>>
  ELSE (IF InsideSubsearch(s, i) THEN <<>> ELSE <<s[i]>>) \o KeepOutside(s, i + 1)

WithoutSubsearchContent(s) == KeepOutside(s, 1)

HasSubsearchPipe(s) ==
  \E i \in 1..Len(s) : s[i] = "|" /\ InsideSubsearch(s, i)

\* C1: once the query is split, a query with a '|' inside a [ ... ] subsearch
\* has as many stages as the query without the content of the subsearch
C1_BracketSafety ==
  (pc # "parse" /\ HasSubsearchPipe(search_query))
    => Len(commands) = Len(SplitCommands(WithoutSubsearchContent(search_query)))

(***************************************************************************)
(* C2.  A rename stage 'rename OLD1 as NEW1, OLD2 as NEW2, ...' puts every *)
(* NEWi, as a bare name, into renamed and adds no OLDi to any category.    *)
(***************************************************************************)
\* the items 'OLD as NEW' of a rename stage, each as its three tokens
RenameItems(cmd) ==
  [i \in 1..Len(Split(ArgsOf(cmd), ",")) |-> WsTokens(Split(ArgsOf(cmd), ",")[i])]

IsRenameList(cmd) ==
  /\ VerbIs(cmd, <<"r","e","n","a","m","e">>)
  /\ \A i \in 1..Len(RenameItems(cmd)) :
       /\ Len(RenameItems(cmd)[i]) = 3
       /\ IsName(RenameItems(cmd)[i][1])
       /\ LowerStr(RenameItems(cmd)[i][2]) = <<"a","s">>
       /\ IsName(RenameItems(cmd)[i][3])

Categories == {"used", "created", "renamed"}

C2_RenameListStep ==
  (AtStage /\ IsRenameList(commands[idx]) /\ idx' = idx + 1)
    => \A i \in 1..Len(RenameItems(commands[idx])) :
         /\ RenameItems(commands[idx])[i][3] \in fields_usage'.renamed
         /\ \A c \in Categories :
              RenameItems(commands[idx])[i][1] \in fields_usage'[c]
                => RenameItems(commands[idx])[i][1] \in fields_usage[c]

\* C2: the step that processes a rename stage holding a list of pairs
\* 'OLD as NEW' puts every NEW, as a bare name, into renamed and adds no OLD
\* to any category
C2_RenameList == [][C2_RenameListStep]_vars

(***************************************************************************)
(* C3.  After a stage 'stats func(x) as y by z' the alias y is in created, *)
(* and x and z are in used.                                                *)
(***************************************************************************)
\* the name before '(' and the name between '(' and ')' of a call f(x)
CallName(t) == SubSeq(t, 1, WordRun(t, 1))
CallArg(t)  == SubSeq(t, WordRun(t, 1) + 2, Len(t) - 1)

IsCall(t) ==
  /\ WordRun(t, 1) >= 1
  /\ Len(t) >= WordRun(t, 1) + 3
  /\ t[WordRun(t, 1) + 1] = "("
  /\ t[Len(t)] = ")"
  /\ IsName(CallArg(t))

IsStatsAlias(cmd) ==
  /\ Len(WsTokens(cmd)) = 6
  /\ LowerStr(WsTokens(cmd)[1]) = <<"s","t","a","t","s">>
  /\ IsCall(WsTokens(cmd)[2])
  /\ LowerStr(WsTokens(cmd)[3]) = <<"a","s">>
  /\ IsName(WsTokens(cmd)[4])
  /\ LowerStr(WsTokens(cmd)[5]) = <<"b","y">>
  /\ IsName(WsTokens(cmd)[6])

\* C3: after parsing, for every stage 'stats func(x) as y by z', y is in
\* created and x and z are in used
C3_StatsAlias ==
  Parsed =>
    \A i \in 1..Len(commands) :
      IsStatsAlias(commands[i]) =>
        /\ WsTokens(commands[i])[4] \in fields_usage.created
        /\ CallArg(WsTokens(commands[i])[2]) \in fields_usage.used
        /\ WsTokens(commands[i])[6] \in fields_usage.used

(***************************************************************************)
(* C4.  After a stage 'lookup T in1, in2 OUTPUT out1, out2' (OUTPUT or     *)
(* OUTPUTNEW) every input is in used and every output is in created.       *)
(***************************************************************************)
IsOutputWord(t) == LowerStr(t) \in {<<"o","u","t","p","u","t">>, <<"o","u","t","p","u","t","n","e","w">>}

\* the index of the OUTPUT keyword among the tokens
OutputIndex(toks) == CHOOSE k \in 1..Len(toks) : IsOutputWord(toks[k])

\* a token of a comma-separated list, without its comma
Uncomma(t) == IF t # <<>> /\ t[Len(t)] = "," THEN SubSeq(t, 1, Len(t) - 1) ELSE t

LookupInputs(toks) == {Uncomma(toks[k]) : k \in 3..(OutputIndex(toks) - 1)}
LookupOutputs(toks) == {Uncomma(toks[k]) : k \in (OutputIndex(toks) + 1)..Len(toks)}

IsLookupForm(cmd) ==
  /\ Len(WsTokens(cmd)) >= 5
  /\ LowerStr(WsTokens(cmd)[1]) = <<"l","o","o","k","u","p">>
  /\ Cardinality({k \in 1..Len(WsTokens(cmd)) : IsOutputWord(WsTokens(cmd)[k])}) = 1
  /\ OutputIndex(WsTokens(cmd)) >= 4
  /\ OutputIndex(WsTokens(cmd)) < Len(WsTokens(cmd))
  /\ \A t \in LookupInputs(WsTokens(cmd)) \cup LookupOutputs(WsTokens(cmd)) : IsName(t)

\* C4: after parsing, for every stage 'lookup T in1, in2 OUTPUT out1, out2',
\* every input is in used and every output is in created
C4_LookupProvenance ==
  Parsed =>
    \A i \in 1..Len(commands) :
      IsLookupForm(commands[i]) =>
        /\ LookupInputs(WsTokens(commands[i])) \subseteq fields_usage.used
        /\ LookupOutputs(WsTokens(commands[i])) \subseteq fields_usage.created

(***************************************************************************)
(* C5.  check_cim_compliance returns exactly one violation for a field F   *)
(* if F was extracted into used, created or renamed and is neither a       *)
(* canonical field nor a custom-field key of any source, and none for any  *)
(* other field.                                                            *)
(***************************************************************************)
\* the union of all mapping values
CanonicalFieldSet(table) ==
  UNION {{table[i].items[j][2] : j \in 1..Len(table[i].items)} : i \in 1..Len(table)}

\* the custom-field keys of all sources
CustomFieldKeys(table) ==
  UNION {{table[i].items[j][1] : j \in 1..Len(table[i].items)} : i \in 1..Len(table)}

Extracted == fields_usage.used \cup fields_usage.created \cup fields_usage.renamed

ViolationExpected(F) ==
  /\ F \in Extracted
  /\ F \notin CanonicalFieldSet(TableOf(mappings))
  /\ F \notin CustomFieldKeys(TableOf(mappings))

\* every field a violation could be about
FieldsOfInterest ==
  Range(ViolationFields) \cup Extracted
    \cup CanonicalFieldSet(TableOf(mappings)) \cup CustomFieldKeys(TableOf(mappings))

\* C5: when check_cim_compliance has returned, a field has exactly one
\* violation if it was extracted and is neither canonical nor a custom-field
\* key, and no violation otherwise
C5_OneViolationPerField ==
  pc = "done" =>
    \A F \in FieldsOfInterest :
      ViolationCount(F) = IF ViolationExpected(F) THEN 1 ELSE 0

\* a non-compliant field of two categories is reported once, next to an
\* extracted custom-field key that is not reported
C5_Witness ==
  /\ pc = "done"
  /\ \E F \in fields_usage.created \cap fields_usage.used :
       ViolationExpected(F) /\ ViolationCount(F) = 1
  /\ \E G \in Extracted :
       /\ G \in CustomFieldKeys(TableOf(mappings))
       /\ G \notin CanonicalFieldSet(TableOf(mappings))
       /\ ViolationCount(G) = 0

(***************************************************************************)
(* C6.  suggest_alias(F) returns exactly the canonical fields that some    *)
(* source assigns to a key equal to F ignoring case, none of them twice,   *)
(* and the empty list when no key matches.                                 *)
(***************************************************************************)
CanonicalsFor(F, table) ==
  UNION {{table[i].items[j][2] :
            j \in {k \in 1..Len(table[i].items) :
                     LowerStr(table[i].items[k][1]) = LowerStr(F)}} :
         i \in 1..Len(table)}

\* C6: when suggest_alias has returned, its result holds exactly the canonical
\* fields of the keys that equal the field ignoring case, each once, and is
\* empty when no key matches
C6_AliasCompleteness ==
  pc = "suggested" =>
    /\ Range(suggestions) = CanonicalsFor(field, TableOf(mappings))
    /\ Cardinality(Range(suggestions)) = Len(suggestions)
    /\ (CanonicalsFor(field, TableOf(mappings)) = {} => suggestions = <<>>)

\* a field that matches keys of two canonical fields only when case is ignored
C6_Witness ==
  /\ pc = "suggested"
  /\ Len(suggestions) >= 2
  /\ Cardinality({it \in Range(AllItems(TableOf(mappings))) :
                    LowerStr(it[1]) = LowerStr(field)}) >= 3

(***************************************************************************)
(* C7.  Two analyses of the same query against the same table yield the    *)
(* same field-usage sets and the same violations in the same order.        *)
(***************************************************************************)
\* C7: when the second analysis of the same query has returned, its usage sets
\* and its violation sequence equal those of the first
C7_SameResultTwice ==
  (pc = "done" /\ prior # NoPrior) =>
    /\ fields_usage = prior.usage
    /\ violations = prior.violations

(***************************************************************************)
(* C8.  For the end-to-end scenario query, renamed = {action, src_ip},     *)
(* created holds user_fullname and src_region_name, and used holds src_ip, *)
(* user_fullname, count and region_code.                                   *)
(***************************************************************************)
IsScenario == search_query \in {ScenarioQuery, ExampleQuery}

\* C8: after parsing the scenario query, renamed = {action, src_ip}, created
\* holds user_fullname and src_region_name, used holds src_ip, user_fullname,
\* count and region_code
C8_ScenarioUsage ==
  (Parsed /\ IsScenario) =>
    /\ fields_usage.renamed = {<<"a","c","t","i","o","n">>, <<"s","r","c","_","i","p">>}
    /\ {<<"u","s","e","r","_","f","u","l","l","n","a","m","e">>, <<"s","r","c","_","r","e","g","i","o","n","_","n","a","m","e">>} \subseteq fields_usage.created
    /\ {<<"s","r","c","_","i","p">>, <<"u","s","e","r","_","f","u","l","l","n","a","m","e">>, <<"c","o","u","n","t">>, <<"r","e","g","i","o","n","_","c","o","d","e">>}
         \subseteq fields_usage.used

(***************************************************************************)
(* C9.  For the scenario query the violations include user_fullname and    *)
(* src_region_name and none is about action, src_ip or count.              *)
(***************************************************************************)
\* C9: when check_cim_compliance has returned for the scenario query, there is
\* a violation for user_fullname and for src_region_name and none for action,
\* src_ip or count
C9_ScenarioViolations ==
  (pc = "done" /\ IsScenario) =>
    /\ {<<"u","s","e","r","_","f","u","l","l","n","a","m","e">>, <<"s","r","c","_","r","e","g","i","o","n","_","n","a","m","e">>} \subseteq Range(ViolationFields)
    /\ Range(ViolationFields) \cap {<<"a","c","t","i","o","n">>, <<"s","r","c","_","i","p">>, <<"c","o","u","n","t">>} = {}

(***************************************************************************)
(* C10.  Whatever the query, the analysis ends without raising: no step    *)
(* raises and every step moves the analysis on, towards its end.  A        *)
(* rename, eval, stats or lookup stage in which the verb's pattern matches *)
(* nowhere adds no field to any category, and a query without any stage    *)
(* yields three empty sets and no violations.                              *)
(***************************************************************************)
MatchesNowhere(cmd) ==
  \/ VerbIs(cmd, <<"r","e","n","a","m","e">>) /\ \A i \in 1..Len(cmd) : ~RenameAt(cmd, i).ok
  \/ VerbIs(cmd, <<"e","v","a","l">>)   /\ \A i \in 1..Len(cmd) : ~EvalAt(cmd, i).ok
  \/ VerbIs(cmd, <<"s","t","a","t","s">>)  /\ \A i \in 1..Len(cmd) : ~StatsAt(cmd, i).ok
  \/ VerbIs(cmd, <<"l","o","o","k","u","p">>) /\ \A i \in 1..Len(cmd) : ~LookupAt(cmd, i).ok

\* the empty string, whitespace, or nothing but '|' and whitespace
NoStageText(q) == \A k \in 1..Len(q) : q[k] \in Whitespace \cup {"|"}

Rank(p) ==
  CASE p = "parse" -> 3 [] p = "stages" -> 2 [] p = "check" -> 1 [] OTHER -> 0

MovesOn ==
  \/ Rank(pc') < Rank(pc)
  \/ /\ pc = "stages" /\ pc' = "stages"
     /\ commands' = commands
     /\ idx < idx' /\ idx' <= Len(commands) + 1
  \/ /\ pc = "check" /\ pc' = "check"
     /\ todo' \subseteq todo /\ todo' # todo

C10_Step ==
  /\ pc' # "raised"
  /\ MovesOn
  /\ (AtStage /\ MatchesNowhere(commands[idx])) => fields_usage' = fields_usage
  /\ (pc' = "done" /\ NoStageText(search_query))
       => (fields_usage' = EmptyUsage /\ violations' = <<>>)

TopLevelAt(s, i) ==
  /\ Cardinality({k \in 1..(i - 1) : s[k] = "("})
       = Cardinality({k \in 1..(i - 1) : s[k] = ")"})
  /\ Cardinality({k \in 1..(i - 1) : s[k] = "\""}) % 2 = 0

TopLevelCommas(s) == {i \in 1..Len(s) : s[i] = "," /\ TopLevelAt(s, i)}

\* the pieces of s between its top-level commas, from position i on
RECURSIVE TopLevelParts(_, _)
TopLevelParts(s, i) ==
  IF {k \in TopLevelCommas(s) : k >= i} = {}
    THEN <<SubSeq(s, i, Len(s))>>
    ELSE <<SubSeq(s, i, Min({k \in TopLevelCommas(s) : k >= i}) - 1)>>
           \o TopLevelParts(s, Min({k \in TopLevelCommas(s) : k >= i}) + 1)

\* the assignments of an eval stage
EvalAssignments(cmd) == TopLevelParts(ArgsOf(cmd), 1)

HasEquals(part) == \E k \in 1..Len(part) : part[k] = "="

FirstEquals(part) == Min({k \in 1..Len(part) : part[k] = "="})

\* FIELD and EXPR of an assignment 'FIELD = EXPR'
EvalTarget(part) == Strip(SubSeq(part, 1, FirstEquals(part) - 1))
EvalExpr(part)   == SubSeq(part, FirstEquals(part) + 1, Len(part))

IsEvalList(cmd) ==
  /\ VerbIs(cmd, <<"e","v","a","l">>)
  /\ \A i \in 1..Len(EvalAssignments(cmd)) :
       /\ HasEquals(EvalAssignments(cmd)[i])
       /\ IsName(EvalTarget(EvalAssignments(cmd)[i]))

EvalTargets(cmd) ==
  {EvalTarget(EvalAssignments(cmd)[i]) : i \in 1..Len(EvalAssignments(cmd))}

\* the word tokens of the right-hand expressions
EvalExprTokens(cmd) ==
  UNION {BareWords(EvalExpr(EvalAssignments(cmd)[i])) :
           i \in 1..Len(EvalAssignments(cmd))}

C11_EvalListStep ==
  (AtStage /\ IsEvalList(commands[idx]) /\ idx' = idx + 1)
    => /\ EvalTargets(commands[idx]) \subseteq fields_usage'.created
       /\ \A c \in Categories :
            \A t \in EvalExprTokens(commands[idx]) \ EvalTargets(commands[idx]) :
              t \in fields_usage'[c] => t \in fields_usage[c]

\* C11: the step that processes an eval stage holding assignments
\* 'FIELD = EXPR', separated by commas outside parentheses and quotes, puts
\* every FIELD into created and adds no token of an EXPR to any category
C11_EvalAssignments == [][C11_EvalListStep]_vars

(***************************************************************************)
(* C12.  A stage without an extractor of its own (verb search, where,      *)
(* table, fields, fillnull, coalesce, any other verb, or no leading word   *)
(* at all) is handled by the fallback rule: the names right before '=' go  *)
(* to used, or every bare word when there is none.  No such stage is       *)
(* skipped.                                                                *)
(***************************************************************************)
\* the verbs with an extraction rule of their own
ExtractorVerbs ==
  { <<"r","e","n","a","m","e">>, <<"e","v","a","l">>, <<"s","t","a","t","s">>, <<"t","s","t","a","t","s">>, <<"c","h","a","r","t">>,
    <<"t","i","m","e","c","h","a","r","t">>, <<"l","o","o","k","u","p">> }

HasNoExtractor(cmd) ==
  WordRun(cmd, 1) = 0 \/ \A v \in ExtractorVerbs : ~VerbIs(cmd, v)

\* the maximal runs of word characters of cmd, as <<first, last>> positions
WordSpans(cmd) ==
  {<<a, b>> \in (1..Len(cmd)) \X (1..Len(cmd)) :
     /\ a <= b
     /\ \A k \in a..b : cmd[k] \in WordChars
     /\ (a = 1 \/ cmd[a - 1] \notin WordChars)
     /\ (b = Len(cmd) \/ cmd[b + 1] \notin WordChars)}

NamesBeforeEquals(cmd) ==
  {SubSeq(cmd, w[1], w[2]) :
     w \in {v \in WordSpans(cmd) : v[2] < Len(cmd) /\ cmd[v[2] + 1] = "="}}

AllWordTokens(cmd) == {SubSeq(cmd, w[1], w[2]) : w \in WordSpans(cmd)}

\* what the fallback rule reads off a stage
FallbackExpected(cmd) ==
  IF NamesBeforeEquals(cmd) # {} THEN NamesBeforeEquals(cmd)
                                ELSE AllWordTokens(cmd)

C12_FallbackStep ==
  (AtStage /\ HasNoExtractor(commands[idx]) /\ idx' = idx + 1)
    => FallbackExpected(commands[idx]) \subseteq fields_usage'.used

\* C12: the step that processes a stage without an extractor of its own,
\* whatever its verb and also when it has no leading word, adds the names
\* right before '=' to used, or every bare word when there are none
C12_FallbackAlways == [][C12_FallbackStep]_vars

(***************************************************************************)
(* C13.  The record of parse_search_query is the union, per category, of   *)
(* what the stages contribute: a second analysis of the same stages in     *)
(* another order, or with one of them repeated, gives the same three sets. *)
(***************************************************************************)
\* the '|' of s that lie outside every [ ... ] subsearch
TopLevelPipes(s) == {i \in 1..Len(s) : s[i] = "|" /\ DepthBefore(s, i) <= 0}

\* the pieces of s between the positions pipes, from position i on
RECURSIVE TopLevelSegments(_, _, _)
TopLevelSegments(s, pipes, i) ==
  IF \A k \in pipes : k < i
    THEN <<SubSeq(s, i, Len(s))>>
    ELSE <<SubSeq(s, i, Min({k \in pipes : k >= i}) - 1)>>
           \o TopLevelSegments(s, pipes, Min({k \in pipes : k >= i}) + 1)

\* the trimmed, non-empty top-level stages of a query
TopLevelStages(q) ==
  SelectSeq(StripAll(TopLevelSegments(q, TopLevelPipes(q), 1)),
            LAMBDA c : c # <<>>)

StageOrders(n) ==
  {f \in [1..n -> 1..n] : \A i, j \in 1..n : f[i] = f[j] => i = j}

Reordered(stages, f) == [i \in 1..Len(stages) |-> stages[f[i]]]

\* stages with a copy of stage k put after position j
Repeated(stages, k, j) ==
  SubSeq(stages, 1, j) \o <<stages[k]>> \o SubSeq(stages, j + 1, Len(stages))

\* parse_search_query has returned; the caller parses another query and keeps
\* the sets of the first
ReinvokeOn(kind, query) ==
  /\ pc = "stages" /\ idx > Len(commands)
  /\ prior = NoPrior
  /\ prior' = [run |-> kind, usage |-> fields_usage, query |-> search_query]
  /\ search_query' = query
  /\ pc' = "parse"
  /\ commands' = <<>>
  /\ idx' = 1
  /\ fields_usage' = EmptyUsage
  /\ all_fields' = {}
  /\ todo' = {}
  /\ violations' = <<>>
  /\ UNCHANGED mappings
  /\ UNCHANGED aliasVars
  /\ UNCHANGED suiteVars

ParseReturned == pc = "stages" /\ idx > Len(commands) /\ prior = NoPrior

ReorderedQueries(stages) ==
  {JoinStages(Reordered(stages, f)) : f \in StageOrders(Len(stages))}

RepeatedQueries(stages) ==
  {JoinStages(Repeated(stages, k, j)) :
     k \in 1..Len(stages), j \in 0..Len(stages)}

\* the second query holds the stages of the first in any order
ReinvokeReordered ==
  /\ ParseReturned
  /\ \E q \in ReorderedQueries(TopLevelStages(search_query)) :
       ReinvokeOn("reordered", q)

\* the second query holds one stage of the first once more
ReinvokeRepeated ==
  /\ ParseReturned
  /\ \E q \in RepeatedQueries(TopLevelStages(search_query)) :
       ReinvokeOn("repeated", q)

\* parse_search_query alone, lines 141-185
ParseSearchQuery ==
  \/ Segment
  \/ StageNoVerb
  \/ StageRename
  \/ StageEval
  \/ StageStats
  \/ StageLookup
  \/ StageFallback
  \/ StageOther

\* stages of every kind, two of them renames and one with a subsearch
ReorderStagePool ==
  { <<"r","e","n","a","m","e"," ","e","v","e","n","t","N","a","m","e"," ","a","s"," ","a","c","t","i","o","n">>,
    <<"r","e","n","a","m","e"," ","a"," ","A","S"," ","f","o","o",","," ","b"," ","a","s"," ","u","s","e","r">>,
    <<"e","v","a","l"," ","f","o","o"," ","="," ","1">>,
    <<"s","t","a","t","s"," ","c","o","u","n","t","(","u","s","e","r",")"," ","a","s"," ","f","o","o"," ","b","y"," ","s","r","c","_","i","p">>,
    <<"l","o","o","k","u","p"," ","T"," ","s","r","c","_","i","p",","," ","u","s","e","r"," ","O","U","T","P","U","T"," ","f","o","o",","," ","b","a","r">>,
    <<"s","e","a","r","c","h"," ","["," ","s","e","a","r","c","h"," ","u","s","e","r","=","a"," ","|"," ","f","i","e","l","d","s"," ","f","o","o"," ","]">>,
    <<"i","n","d","e","x","=","m","a","i","n"," ","s","o","u","r","c","e","t","y","p","e","=","x">>,
    <<"["," ","s","e","a","r","c","h"," ","u","s","e","r","=","a"," ","]">> }

ReorderPipelines ==
  UNION {[1..n -> ReorderStagePool] : n \in 0..MaxStages}

InitReorder == InitOn({JoinStages(p) : p \in ReorderPipelines})

NextReorder == ParseSearchQuery \/ ReinvokeReordered \/ ReinvokeRepeated

SpecReorder == InitReorder /\ [][NextReorder]_vars

\* C13: when the stages of a query have been parsed again, in another order
\* or with one stage repeated, used, created and renamed are the sets of the
\* first analysis
C13_StageUnion ==
  (prior.run \in {"reordered", "repeated"} /\ Parsed)
    => fields_usage = prior.usage

\* two different stages were analysed in both orders, with fields in two
\* categories
C13_Witness ==
  /\ prior.run = "reordered"
  /\ Parsed
  /\ Len(commands) = 2
  /\ search_query # prior.query
  /\ fields_usage.renamed # {}
  /\ fields_usage.created # {}
  /\ fields_usage = prior.usage

(***************************************************************************)
(* C14.  suggest_alias(F) lists the canonical fields in the order in which *)
(* the scan of the table, source by source and key by key, first meets a   *)
(* key equal to F ignoring case that maps to them.                         *)
(***************************************************************************)
\* the positions, in scan order, of the keys that match F and map to c
MatchingAt(F, table, c) ==
  {k \in 1..Len(AllItems(table)) :
     /\ LowerStr(AllItems(table)[k][1]) = LowerStr(F)
     /\ AllItems(table)[k][2] = c}

FirstMatch(F, table, c) == Min(MatchingAt(F, table, c))

\* C14: when suggest_alias has returned, one canonical name precedes another
\* in its result exactly when its first matching key comes first in the scan
\* of the table
C14_FirstSeenOrder ==
  pc = "suggested" =>
    \A i, j \in 1..Len(suggestions) :
      (/\ MatchingAt(field, TableOf(mappings), suggestions[i]) # {}
       /\ MatchingAt(field, TableOf(mappings), suggestions[j]) # {})
        => (i < j <=> FirstMatch(field, TableOf(mappings), suggestions[i])
                        < FirstMatch(field, TableOf(mappings), suggestions[j]))

(***************************************************************************)
(* C15.  analysis_suite.main calls the four analyses with the arguments    *)
(* their definitions require: no call raises, every search gets an entry   *)
(* with the keys violations, cim_issues, syntax and formatted_search, and  *)
(* the report is reached after the last search.                            *)
(***************************************************************************)
ReportKeys == {"violations", "cim_issues", "syntax", "formatted_search"}

HasEntry(name) ==
  \E j \in 1..Len(report) :
    report[j].name = name /\ DOMAIN report[j].entry = ReportKeys

\* C15: main never stops on a raised call; the searches the loop has passed
\* have an entry with the four keys, and so has every search once the report
\* is reached
C15_SuiteCallsMatch ==
  /\ main_pc # "raised"
  /\ main_pc = "loop" => \A i \in 1..analysed : HasEntry(searches[i].name)
  /\ main_pc = "reported"
       => \A i \in 1..Len(searches) : HasEntry(searches[i].name)
====
